---------------------------- MODULE Spec2Model ----------------------------
(***************************************************************************)
(* A model of schema-graph (src/main.go): the two row mergers readTables   *)
(* and readConstraints run as concurrent tasks of getTables, the assembly  *)
(* loop and the two sort passes of getTables, the identifier function      *)
(* name, the group key grp, and the three renderers writing through a      *)
(* bufio.Writer to a sink that may fail.                                   *)
(*                                                                         *)
(* A Go string is a sequence of one-character strings, so that joining,    *)
(* replacing, splitting and byte-wise comparison are computed and not      *)
(* assumed.  The Comment and Type fields of Table and Column are carried   *)
(* through the pipeline untouched by every piece of code modelled here and *)
(* are left out of the records.                                            *)
(***************************************************************************)
EXTENDS Naturals, Sequences, FiniteSets

VARIABLES
    db,           \* getTables' argument: "open" (a live database) or "nil"
    tpc,          \* readTables task: "idle" (never started), "query", "scan", "ok", "err"
    tRows,        \* the column rows rows.Next() has delivered so far
    tp,           \* readTables: the pending table
    tAcc,         \* readTables: its local slice `tables`
    tables,       \* getTables: `tables`, assigned when the task returns
    cpc,          \* readConstraints task: "idle", "query", "scan", "ok", "err"
    cRows,        \* the constraint rows rows.Next() has delivered so far
    cp,           \* readConstraints: the pending constraint
    cAcc,         \* readConstraints: its local map `constraints`
    constraints,  \* getTables: `constraints`, assigned when the task returns
    pc,           \* getTables: "wait", "done", "failed"
    snapshot,     \* the values held by the json file: <<>>, <<constraints>> or <<constraints, tables>>
    assembled,    \* `tables` after the assembly loop
    ranked,       \* `tables` after sort.Sort(sort.Reverse(byRankSize(tables)))
    result,       \* `tables` as returned, after sort.Stable(byNameGroup(tables))
    fmt,          \* the renderer running: "dot", "gml", "graphml"
    rTables,      \* the table list handed to the renderer
    rpc,          \* renderer: "idle", "write", "flush", "done"
    doc,          \* the pieces the renderer has handed to the bufio.Writer so far
    bwBuf,        \* bufio.Writer: the pieces buffered and not yet written to the sink
    bwErr,        \* bufio.Writer: its sticky error
    sink,         \* the pieces the sink accepted, in order
    sinkCalls,    \* the outcome of every Write call made on the sink, in order
    rErr          \* what the renderer returned: "none" (running), "nil", "error"

fetchVars == <<db, tpc, tRows, tp, tAcc, tables, cpc, cRows, cp, cAcc,
               constraints, pc, snapshot, assembled, ranked, result>>
renderVars == <<fmt, rTables, rpc, doc, bwBuf, bwErr, sink, sinkCalls, rErr>>
vars == <<fetchVars, renderVars>>

---------------------------------------------------------------------------
(* Bounds of the model.                                                    *)
MaxTRows == 2       \* column rows delivered to readTables
MaxCRows == 2       \* constraint rows delivered to readConstraints
MaxSnapTables == 2  \* tables held by a snapshot file that is read back
MaxSnapCons == 1    \* constraint rows behind the map of such a file

---------------------------------------------------------------------------
(* Strings.                                                                *)
Code(ch) ==
    CASE ch = "$" -> 36 [] ch = "." -> 46
      [] ch = "A" -> 65 [] ch = "B" -> 66 [] ch = "C" -> 67 [] ch = "D" -> 68
      [] ch = "K" -> 75 [] ch = "L" -> 76 [] ch = "O" -> 79 [] ch = "P" -> 80
      [] ch = "R" -> 82 [] ch = "T" -> 84 [] ch = "U" -> 85
      [] ch = "_" -> 95 [] ch = "x" -> 120 [] ch = "y" -> 121

RECURSIVE StrLess(_, _)
StrLess(a, b) ==
    IF b = <<>> THEN FALSE
    ELSE IF a = <<>> THEN TRUE
    ELSE IF Code(Head(a)) < Code(Head(b)) THEN TRUE
    ELSE IF Code(Head(a)) > Code(Head(b)) THEN FALSE
    ELSE StrLess(Tail(a), Tail(b))

Dot == <<"_", "_">>

RECURSIVE replDot(_)
replDot(s) ==
    IF s = <<>> THEN <<>>
    ELSE IF Head(s) = "." THEN Dot \o replDot(Tail(s))
    ELSE IF Head(s) = "$" THEN <<"_">> \o replDot(Tail(s))
    ELSE <<Head(s)>> \o replDot(Tail(s))

name(owner, table) == replDot(owner \o Dot \o table)

(* strings.SplitN(s, "_", n): at most n parts, the last one the unsplit rest *)
RECURSIVE SplitN(_, _, _)
SplitN(s, n, cur) ==
    IF s = <<>> THEN <<cur>>
    ELSE IF n = 1 THEN <<cur \o s>>
    ELSE IF Head(s) = "_" THEN <<cur>> \o SplitN(Tail(s), n - 1, <<>>)
    ELSE SplitN(Tail(s), n, cur \o <<Head(s)>>)

RECURSIVE grpFrom(_, _, _)
grpFrom(parts, i, s) ==
    IF i > Len(parts) THEN s
    ELSE IF i >= 2 /\ Len(parts[i]) > 2 THEN parts[i]
    ELSE grpFrom(parts, i + 1, s)

grp(s) == grpFrom(SplitN(s, 3, <<>>), 1, s)

---------------------------------------------------------------------------
(* Records.                                                                *)
ZeroTable == [Owner |-> <<>>, Name |-> <<>>, Columns |-> <<>>, Constraints |-> <<>>]
ZeroConstraint ==
    [Owner |-> <<>>, Name |-> <<>>, Type |-> <<>>, Table |-> <<>>, Columns |-> <<>>,
     RemoteOwner |-> <<>>, RemoteTable |-> <<>>, RemoteName |-> <<>>]

TableConstraintOf(c) ==
    [Columns |-> c.Columns, RemoteOwner |-> c.RemoteOwner,
     RemoteTable |-> c.RemoteTable, RemoteName |-> c.RemoteName]

MapKey(owner, table) == owner \o <<".">> \o table

Lookup(m, k) == IF k \in DOMAIN m THEN m[k] ELSE <<>>

MapAppend(m, k, v) ==
    [x \in DOMAIN m \cup {k} |-> IF x = k THEN Lookup(m, k) \o <<v>> ELSE m[x]]

---------------------------------------------------------------------------
(* The rows the metadata source can deliver.  Table and constraint names   *)
(* are NOT NULL columns of the catalogue views, so no row carries an empty *)
(* owner, table name or constraint name.                                   *)
sA == <<"A">>
sAB == <<"A", ".", "B">>
sC == <<"C">>
sBC == <<"B", ".", "C">>
sPK == <<"P", "K">>
TypeP == <<"P">>
TypeU == <<"U">>
TypeR == <<"R">>

TableIds == {<<sA, sBC>>, <<sA, sC>>, <<sAB, sC>>}
ColNames == {<<"x">>, <<"y">>}
ConsNames == {<<"K">>, <<"L">>}

TableRows == {[Owner |-> id[1], Name |-> id[2], Col |-> c] : id \in TableIds, c \in ColNames}

ConsRow(id, nm, ty, c) ==
    [Owner |-> id[1], Name |-> nm, Type |-> ty, Table |-> id[2], Col |-> c,
     RemoteOwner |-> IF ty = TypeR THEN sA ELSE <<>>,
     RemoteTable |-> IF ty = TypeR THEN sC ELSE <<>>,
     RemoteName  |-> IF ty = TypeR THEN sPK ELSE <<>>]

ConsRows ==
    {ConsRow(id, nm, ty, c) :
        id \in TableIds, nm \in ConsNames, ty \in {TypeP, TypeU, TypeR}, c \in ColNames}

(* ORDER BY A.owner, A.table_name, A.column_id: the rows of one table are  *)
(* adjacent, tables ascend, and a table has each column once.              *)
PairLess(a1, a2, b1, b2) == StrLess(a1, b1) \/ (a1 = b1 /\ StrLess(a2, b2))

TableRowFollows(rows, row) ==
    IF rows = <<>> THEN TRUE
    ELSE LET last == rows[Len(rows)]
       IN  \/ PairLess(last.Owner, last.Name, row.Owner, row.Name)
           \/ /\ last.Owner = row.Owner /\ last.Name = row.Name
              /\ \A i \in 1..Len(rows) :
                    (rows[i].Owner = row.Owner /\ rows[i].Name = row.Name)
                        => rows[i].Col # row.Col

(* ORDER BY 1, 2, 3, 4, 5 over (owner, constraint_name, constraint_type,   *)
(* table_name, column_name); a constraint name belongs to one constraint   *)
(* of its owner, so type, table and remote endpoint follow from it.        *)
ConsRowFollows(rows, row) ==
    IF rows = <<>> THEN TRUE
    ELSE LET last == rows[Len(rows)]
       IN  \/ PairLess(last.Owner, last.Name, row.Owner, row.Name)
           \/ /\ last.Owner = row.Owner /\ last.Name = row.Name
              /\ last.Type = row.Type /\ last.Table = row.Table
              /\ StrLess(last.Col, row.Col)

---------------------------------------------------------------------------
(* readTables: the loop body for one scanned row, and the final flush.     *)
(* The result is <<tp, tables>>.                                           *)
TableOfRow(row) ==
    [Owner |-> row.Owner, Name |-> row.Name,
     Columns |-> <<[Name |-> row.Col, Unique |-> FALSE]>>, Constraints |-> <<>>]

(* Mutant: the scanned row's column is not put into the new table.         *)
TableStepDropsFirstColumn(p, acc, row) ==
    LET ta == [TableOfRow(row) EXCEPT !.Columns = <<>>]
    IN  IF p.Name = <<>> THEN <<ta, acc>>
        ELSE IF ~(p.Owner = ta.Owner /\ p.Name = ta.Name) THEN <<ta, Append(acc, p)>>
        ELSE <<[p EXCEPT !.Columns = Append(@, TableOfRow(row).Columns[1])], acc>>

TableStep(p, acc, row) ==
    LET ta == TableOfRow(row)
    IN  IF p.Name = <<>> THEN <<ta, acc>>
        ELSE IF ~(p.Owner = ta.Owner /\ p.Name = ta.Name) THEN <<ta, Append(acc, p)>>
        ELSE <<[p EXCEPT !.Columns = Append(@, ta.Columns[1])], acc>>

TableFlush(p, acc) == IF p.Name # <<>> THEN Append(acc, p) ELSE acc

(* readConstraints: the loop body for one scanned row, and the final flush. *)
(* The result is <<cp, constraints>>.                                      *)
ConstraintOfRow(row) ==
    [Owner |-> row.Owner, Name |-> row.Name, Type |-> row.Type, Table |-> row.Table,
     Columns |-> <<row.Col>>, RemoteOwner |-> row.RemoteOwner,
     RemoteTable |-> row.RemoteTable, RemoteName |-> row.RemoteName]

SameConstraint(ca, p) ==
    /\ ca.Owner = p.Owner /\ ca.Name = p.Name /\ ca.Type = p.Type /\ ca.Table = p.Table
    /\ ca.RemoteOwner = p.RemoteOwner /\ ca.RemoteTable = p.RemoteTable
    /\ ca.RemoteName = p.RemoteName

ConsStep(p, acc, row) ==
    LET ca == ConstraintOfRow(row)
    IN  IF p.Name = <<>> THEN <<ca, acc>>
        ELSE IF ~SameConstraint(ca, p)
             THEN <<ca, MapAppend(acc, MapKey(p.Owner, p.Table), p)>>
        ELSE <<[p EXCEPT !.Columns = Append(@, row.Col)], acc>>

ConsFlush(p, acc) ==
    IF p.Name # <<>> THEN MapAppend(acc, MapKey(p.Owner, p.Table), p) ELSE acc

EmptyMap == [k \in {} |-> <<>>]

---------------------------------------------------------------------------
(* getTables: the assembly loop.                                           *)
RECURSIVE AttachR(_)
AttachR(cs) ==
    IF cs = <<>> THEN <<>>
    ELSE IF Head(cs).Type = TypeR
         THEN <<TableConstraintOf(Head(cs))>> \o AttachR(Tail(cs))
         ELSE AttachR(Tail(cs))

IsUniqueType(ty) == ty = TypeP \/ ty = TypeU

UCols(cs) ==
    UNION {{cs[i].Columns[j] : j \in 1..Len(cs[i].Columns)} :
              i \in {k \in 1..Len(cs) : cs[k].Type # TypeR /\ IsUniqueType(cs[k].Type)}}

(* Mutant: the attached list is rebuilt instead of appended to.            *)
AssembleTableResets(t, cons) ==
    LET cs == Lookup(cons, MapKey(t.Owner, t.Name))
        u  == UCols(cs)
    IN  [t EXCEPT !.Constraints = AttachR(cs),
                  !.Columns = [i \in 1..Len(t.Columns) |->
                                  [t.Columns[i] EXCEPT !.Unique = (t.Columns[i].Name \in u)]]]

AssembleTable(t, cons) ==
    LET cs == Lookup(cons, MapKey(t.Owner, t.Name))
        u  == UCols(cs)
    IN  [t EXCEPT !.Constraints = @ \o AttachR(cs),
                  !.Columns = [i \in 1..Len(t.Columns) |->
                                  [t.Columns[i] EXCEPT !.Unique = (t.Columns[i].Name \in u)]]]

Assemble(ts, cons) == [i \in 1..Len(ts) |-> AssembleTable(ts[i], cons)]

---------------------------------------------------------------------------
(* The two sort passes.                                                    *)
byRankSizeLess(a, b) ==
    IF Len(a.Constraints) < Len(b.Constraints) THEN TRUE
    ELSE IF Len(a.Constraints) > Len(b.Constraints) THEN FALSE
    ELSE Len(a.Columns) < Len(b.Columns)

(* Mutant: sort.Reverse is left out.                                       *)
reverseLessNotReversed(a, b) == byRankSizeLess(a, b)

(* sort.Reverse: Less(i, j) of the wrapper is Less(j, i) of the wrapped.   *)
reverseLess(a, b) == byRankSizeLess(b, a)

byNameGroupLess(a, b) ==
    IF StrLess(a.Owner, b.Owner) THEN TRUE
    ELSE IF StrLess(b.Owner, a.Owner) THEN TRUE
    ELSE IF StrLess(grp(a.Name), grp(b.Name)) THEN TRUE
    ELSE IF StrLess(grp(b.Name), grp(a.Name)) THEN FALSE
    ELSE StrLess(a.Name, b.Name)

Permutations(n) ==
    {p \in [1..n -> 1..n] : \A i, j \in 1..n : p[i] = p[j] => i = j}

(* sort.Sort is not stable: it returns some arrangement of the elements in *)
(* which no element is Less than one before it.                            *)
SortRank(ts) ==
    {[i \in 1..Len(ts) |-> ts[p[i]]] : p \in
        {q \in Permutations(Len(ts)) :
            \A i, j \in 1..Len(ts) : i < j => ~reverseLess(ts[q[j]], ts[q[i]])}}

(* sort.Stable on fewer than 20 elements is one insertion sort.            *)
Swap(s, i, j) == [s EXCEPT ![i] = s[j], ![j] = s[i]]

RECURSIVE SinkDown(_, _)
SinkDown(s, j) ==
    IF j > 1 /\ byNameGroupLess(s[j], s[j - 1]) THEN SinkDown(Swap(s, j, j - 1), j - 1)
    ELSE s

RECURSIVE InsertionSort(_, _)
InsertionSort(s, i) == IF i > Len(s) THEN s ELSE InsertionSort(SinkDown(s, i), i + 1)

SortNameGroup(ts) == InsertionSort(ts, 2)

---------------------------------------------------------------------------
(* The snapshot files getTables may be given when db = nil.  The map is    *)
(* one readConstraints builds from an ordered row stream; the table list   *)
(* holds tables as the encoder writes them (before assembly: no Unique     *)
(* flag, nothing attached), in any order, and a table's name may be empty: *)
(* the file need not be one the program wrote.                             *)
RECURSIVE ConsFold(_, _, _)
ConsFold(p, acc, rows) ==
    IF rows = <<>> THEN ConsFlush(p, acc)
    ELSE LET st == ConsStep(p, acc, Head(rows))
         IN  ConsFold(st[1], st[2], Tail(rows))

SnapshotMaps ==
    UNION {{ConsFold(ZeroConstraint, EmptyMap, rows) :
               rows \in {r \in [1..n -> ConsRows] :
                            \A i \in 1..n : ConsRowFollows(SubSeq(r, 1, i - 1), r[i])}} :
           n \in 0..MaxSnapCons}

SnapshotTableValues ==
    {[Owner |-> id[1], Name |-> id[2],
      Columns |-> [i \in 1..Len(cols) |-> [Name |-> cols[i], Unique |-> FALSE]],
      Constraints |-> <<>>] :
        id \in TableIds \cup {<<sA, <<>>>>}, cols \in {<<<<"x">>>>, <<<<"x">>, <<"y">>>>}}

SnapshotTables ==
    UNION {{l \in [1..n -> SnapshotTableValues] :
               \A i, j \in 1..n :
                   (l[i].Owner = l[j].Owner /\ l[i].Name = l[j].Name) => i = j} :
           n \in 0..MaxSnapTables}

SnapshotFiles == {<<m, ts>> : m \in SnapshotMaps, ts \in SnapshotTables}

(* getTables.  With a live database (db # nil): two tasks of an errgroup,  *)
(* grp.Wait, the snapshot, the assembly loop and the sorts.  With db = nil *)
(* no task is started: the map and the list are decoded from the snapshot  *)
(* file, then the same assembly loop and sorts run.                        *)
FetchInit ==
    /\ db \in {"open", "nil"}
    /\ tpc = (IF db = "open" THEN "query" ELSE "idle")
    /\ cpc = (IF db = "open" THEN "query" ELSE "idle")
    /\ tRows = <<>> /\ tp = ZeroTable /\ tAcc = <<>> /\ tables = <<>>
    /\ cRows = <<>> /\ cp = ZeroConstraint /\ cAcc = EmptyMap
    /\ constraints = EmptyMap
    /\ pc = "wait"
    /\ snapshot \in (IF db = "open" THEN {<<>>} ELSE SnapshotFiles)
    /\ assembled = <<>> /\ ranked = <<>> /\ result = <<>>

RenderIdle ==
    /\ fmt = "dot" /\ rTables = <<>> /\ rpc = "idle" /\ doc = <<>>
    /\ bwBuf = <<>> /\ bwErr = FALSE /\ sink = <<>> /\ sinkCalls = <<>> /\ rErr = "none"

tTaskVars == <<tpc, tRows, tp, tAcc, tables>>
cTaskVars == <<cpc, cRows, cp, cAcc, constraints>>
mainVars == <<db, pc, snapshot, assembled, ranked, result>>

(* readTables *)
TQueryOk ==
    /\ tpc = "query" /\ tpc' = "scan"
    /\ UNCHANGED <<tRows, tp, tAcc, tables, cTaskVars, mainVars, renderVars>>

TQueryErr ==
    /\ tpc = "query" /\ tpc' = "err" /\ tables' = <<>>
    /\ UNCHANGED <<tRows, tp, tAcc, cTaskVars, mainVars, renderVars>>

TScanRow ==
    /\ tpc = "scan" /\ Len(tRows) < MaxTRows
    /\ \E row \in TableRows :
          /\ TableRowFollows(tRows, row)
          /\ tRows' = Append(tRows, row)
          /\ tp' = TableStep(tp, tAcc, row)[1]
          /\ tAcc' = TableStep(tp, tAcc, row)[2]
    /\ UNCHANGED <<tpc, tables, cTaskVars, mainVars, renderVars>>

TScanErr ==
    /\ tpc = "scan" /\ tpc' = "err" /\ tables' = tAcc
    /\ UNCHANGED <<tRows, tp, tAcc, cTaskVars, mainVars, renderVars>>

TRowsEnd ==
    /\ tpc = "scan" /\ tpc' = "ok"
    /\ tAcc' = TableFlush(tp, tAcc) /\ tables' = tAcc'
    /\ UNCHANGED <<tRows, tp, cTaskVars, mainVars, renderVars>>

(* readConstraints *)
CQueryOk ==
    /\ cpc = "query" /\ cpc' = "scan"
    /\ UNCHANGED <<cRows, cp, cAcc, constraints, tTaskVars, mainVars, renderVars>>

CQueryErr ==
    /\ cpc = "query" /\ cpc' = "err" /\ constraints' = EmptyMap
    /\ UNCHANGED <<cRows, cp, cAcc, tTaskVars, mainVars, renderVars>>

CScanRow ==
    /\ cpc = "scan" /\ Len(cRows) < MaxCRows
    /\ \E row \in ConsRows :
          /\ ConsRowFollows(cRows, row)
          /\ cRows' = Append(cRows, row)
          /\ cp' = ConsStep(cp, cAcc, row)[1]
          /\ cAcc' = ConsStep(cp, cAcc, row)[2]
    /\ UNCHANGED <<cpc, constraints, tTaskVars, mainVars, renderVars>>

CScanErr ==
    /\ cpc = "scan" /\ cpc' = "err" /\ constraints' = cAcc
    /\ UNCHANGED <<cRows, cp, cAcc, tTaskVars, mainVars, renderVars>>

CRowsEnd ==
    /\ cpc = "scan" /\ cpc' = "ok"
    /\ cAcc' = ConsFlush(cp, cAcc) /\ constraints' = cAcc'
    /\ UNCHANGED <<cRows, cp, tTaskVars, mainVars, renderVars>>

(* Mutant: Wait returns as soon as one task has returned.                  *)
WaitReturnsAfterOne == tpc \in {"ok", "err"} \/ cpc \in {"ok", "err"}

(* grp.Wait returns once both tasks have returned, with the first error.   *)
WaitReturns == tpc \in {"ok", "err"} /\ cpc \in {"ok", "err"}

WaitErr == tpc = "err" \/ cpc = "err"

GetTablesFetchErr ==
    /\ db = "open" /\ pc = "wait" /\ WaitReturns /\ WaitErr
    /\ pc' = "failed"
    /\ UNCHANGED <<db, snapshot, assembled, ranked, result, tTaskVars, cTaskVars,
                   renderVars>>

(* jsonFile # "", and os.Create, the first Encode, the second Encode or    *)
(* fh.Close fails.                                                         *)
GetTablesSnapshotErr ==
    /\ db = "open" /\ pc = "wait" /\ WaitReturns /\ ~WaitErr
    /\ snapshot' \in {<<>>, <<constraints>>, <<constraints, tables>>}
    /\ pc' = "failed"
    /\ UNCHANGED <<db, assembled, ranked, result, tTaskVars, cTaskVars, renderVars>>

GetTablesOk ==
    /\ db = "open" /\ pc = "wait" /\ WaitReturns /\ ~WaitErr
    /\ \E jsonFile \in BOOLEAN :
          snapshot' = IF jsonFile THEN <<constraints, tables>> ELSE <<>>
    /\ assembled' = Assemble(tables, constraints)
    /\ ranked' \in SortRank(assembled')
    /\ result' = SortNameGroup(ranked')
    /\ pc' = "done"
    /\ UNCHANGED <<db, tTaskVars, cTaskVars, renderVars>>

(* db = nil, and os.Open, the first Decode or the second Decode fails:     *)
(* getTables returns the error.  A Decode that fails on reading the file   *)
(* leaves its target as it was.                                            *)
GetTablesDecodeErr ==
    /\ db = "nil" /\ pc = "wait"
    /\ constraints' \in {EmptyMap, snapshot[1]}
    /\ pc' = "failed"
    /\ UNCHANGED <<db, snapshot, assembled, ranked, result, tpc, tRows, tp, tAcc, tables,
                   cpc, cRows, cp, cAcc, renderVars>>

(* db = nil: both values are decoded from the file, then assembled and     *)
(* sorted as in the other branch.                                          *)
GetTablesDecoded ==
    /\ db = "nil" /\ pc = "wait"
    /\ constraints' = snapshot[1]
    /\ tables' = snapshot[2]
    /\ assembled' = Assemble(tables', constraints')
    /\ ranked' \in SortRank(assembled')
    /\ result' = SortNameGroup(ranked')
    /\ pc' = "done"
    /\ UNCHANGED <<db, snapshot, tpc, tRows, tp, tAcc, cpc, cRows, cp, cAcc, renderVars>>

Init == FetchInit /\ RenderIdle

Next ==
    \/ TQueryOk \/ TQueryErr \/ TScanRow \/ TScanErr \/ TRowsEnd
    \/ CQueryOk \/ CQueryErr \/ CScanRow \/ CScanErr \/ CRowsEnd
    \/ GetTablesFetchErr \/ GetTablesSnapshotErr \/ GetTablesOk
    \/ GetTablesDecodeErr \/ GetTablesDecoded

Spec == Init /\ [][Next]_vars

---------------------------------------------------------------------------
(* The renderers.  A piece is what one WriteString or Fprintf call hands   *)
(* to the bufio.Writer.                                                    *)
MaxRTables == 2     \* tables in the list handed to a renderer
BufPieces == 2      \* pieces the bufio.Writer's buffer holds

Piece(kind, id, to, port, label) ==
    [kind |-> kind, id |-> id, port |-> port, to |-> to, toPort |-> <<>>, label |-> label]

(* Table.PrintNodeDOT: the head row, one row per column, the closing line. *)
NodeDOT(t) ==
    <<Piece("node", name(t.Owner, t.Name), <<>>, <<>>, MapKey(t.Owner, t.Name))>>
    \o [i \in 1..Len(t.Columns) |->
           Piece(IF t.Columns[i].Unique THEN "ucol" ELSE "col", <<>>, <<>>,
                 t.Columns[i].Name, t.Columns[i].Name)]
    \o <<Piece("endnode", <<>>, <<>>, <<>>, <<>>)>>

(* Table.PrintNodeGML *)
NodeGML(t) == <<Piece("gmlnode", name(t.Owner, t.Name), <<>>, <<>>, <<>>)>>

(* The cluster loop of PrintDOT and PrintGraphML, from table i on.         *)
RECURSIVE ClusterLoop(_, _, _)
ClusterLoop(ts, i, prevGrp) ==
    IF i > Len(ts)
    THEN IF prevGrp # <<>> THEN <<Piece("close", <<>>, <<>>, <<>>, <<>>)>> ELSE <<>>
    ELSE LET actGrp == grp(ts[i].Name)
         IN  IF prevGrp = <<>>
             THEN <<Piece("open", actGrp, <<>>, <<>>, <<>>)>> \o NodeDOT(ts[i])
                  \o ClusterLoop(ts, i + 1, actGrp)
             ELSE IF actGrp # prevGrp
             THEN <<Piece("closeopen", actGrp, <<>>, <<>>, <<>>)>> \o NodeDOT(ts[i])
                  \o ClusterLoop(ts, i + 1, actGrp)
             ELSE NodeDOT(ts[i]) \o ClusterLoop(ts, i + 1, prevGrp)

(* Mutant: the edge carries the constraint's last column as port.          *)
EdgePieceLastColumn(kind, t, c) ==
    LET col == IF Len(c.Columns) # 0 THEN c.Columns[Len(c.Columns)] ELSE <<>>
    IN  [kind |-> kind, id |-> name(t.Owner, t.Name), port |-> col,
         to |-> name(c.RemoteOwner, c.RemoteTable), toPort |-> col, label |-> c.RemoteName]

(* One edge statement: source id:col, target id:col, label.                *)
EdgePiece(kind, t, c) ==
    LET col == IF Len(c.Columns) # 0 THEN c.Columns[1] ELSE <<>>
    IN  [kind |-> kind, id |-> name(t.Owner, t.Name), port |-> col,
         to |-> name(c.RemoteOwner, c.RemoteTable), toPort |-> col, label |-> c.RemoteName]

RECURSIVE EdgesOfTable(_, _, _)
EdgesOfTable(kind, t, k) ==
    IF k > Len(t.Constraints) THEN <<>>
    ELSE IF t.Constraints[k].RemoteTable = <<>> THEN EdgesOfTable(kind, t, k + 1)
    ELSE <<EdgePiece(kind, t, t.Constraints[k])>> \o EdgesOfTable(kind, t, k + 1)

RECURSIVE EdgeLoop(_, _, _)
EdgeLoop(kind, ts, i) ==
    IF i > Len(ts) THEN <<>>
    ELSE EdgesOfTable(kind, ts[i], 1) \o EdgeLoop(kind, ts, i + 1)

RECURSIVE NodeLoopGML(_, _)
NodeLoopGML(ts, i) == IF i > Len(ts) THEN <<>> ELSE NodeGML(ts[i]) \o NodeLoopGML(ts, i + 1)

PrintDOT(ts) ==
    <<Piece("digraph", <<>>, <<>>, <<>>, <<>>)>> \o ClusterLoop(ts, 1, <<>>)
    \o EdgeLoop("edge", ts, 1) \o <<Piece("end", <<>>, <<>>, <<>>, <<>>)>>

PrintGML(ts) ==
    <<Piece("graph", <<>>, <<>>, <<>>, <<>>)>> \o NodeLoopGML(ts, 1)
    \o EdgeLoop("gmledge", ts, 1) \o <<Piece("gmlend", <<>>, <<>>, <<>>, <<>>)>>

PrintGraphML(ts) ==
    <<Piece("digraph", <<>>, <<>>, <<>>, <<>>)>> \o ClusterLoop(ts, 1, <<>>)
    \o EdgeLoop("edge", ts, 1) \o <<Piece("end", <<>>, <<>>, <<>>, <<>>)>>

Document(f, ts) ==
    IF f = "dot" THEN PrintDOT(ts) ELSE IF f = "gml" THEN PrintGML(ts) ELSE PrintGraphML(ts)

(* bufio.Writer over the sink.  A Write call on the sink accepts the first *)
(* n <= Len(buf) of the pieces it is given and returns an error (e) or     *)
(* not; accepting                                                          *)
(* fewer than all without an error is io.ErrShortWrite.  b is the writer's *)
(* state [buf, err, sink, calls].                                          *)
(* Mutant: the error of a failed Write is not kept.                        *)
BufFlushForgetsError(b, n, e) ==
    IF b.err THEN b
    ELSE IF b.buf = <<>> THEN b
    ELSE LET failed == e \/ n < Len(b.buf)
         IN  [buf   |-> IF failed THEN SubSeq(b.buf, n + 1, Len(b.buf)) ELSE <<>>,
              err   |-> FALSE,
              sink  |-> b.sink \o SubSeq(b.buf, 1, n),
              calls |-> Append(b.calls, IF failed THEN "fail" ELSE "ok")]

BufFlush(b, n, e) ==
    IF b.err THEN b
    ELSE IF b.buf = <<>> THEN b
    ELSE LET failed == e \/ n < Len(b.buf)
         IN  [buf   |-> IF failed THEN SubSeq(b.buf, n + 1, Len(b.buf)) ELSE <<>>,
              err   |-> failed,
              sink  |-> b.sink \o SubSeq(b.buf, 1, n),
              calls |-> Append(b.calls, IF failed THEN "fail" ELSE "ok")]

BufWrite(b, piece, n, e) ==
    LET b1 == IF Len(b.buf) >= BufPieces /\ ~b.err THEN BufFlush(b, n, e) ELSE b
    IN  IF b1.err THEN b1 ELSE [b1 EXCEPT !.buf = Append(@, piece)]

Bw == [buf |-> bwBuf, err |-> bwErr, sink |-> sink, calls |-> sinkCalls]

SetBw(b) == /\ bwBuf' = b.buf /\ bwErr' = b.err /\ sink' = b.sink /\ sinkCalls' = b.calls

(* The table lists a renderer can be handed: what getTables returns for a  *)
(* snapshot or a database holding some of these tables.                    *)
sTORD == <<"T", "_", "O", "R", "D">>
(* Table identities of the rendered lists.  A list decoded from a snapshot  *)
(* file (db = nil) may hold a table whose Name is empty.                   *)
RenderIds == {<<sA, sC>>, <<sA, sBC>>, <<sAB, sC>>, <<sA, sTORD>>, <<sA, <<>>>>}

ForeignKey(cols) ==
    [Columns |-> cols, RemoteOwner |-> sA, RemoteTable |-> sC, RemoteName |-> sPK]
NoRemote(cols) ==
    [Columns |-> cols, RemoteOwner |-> <<>>, RemoteTable |-> <<>>, RemoteName |-> <<>>]

RenderConstraints ==
    {<<>>, <<ForeignKey(<<<<"x">>, <<"y">>>>)>>,
     <<NoRemote(<<<<"x">>>>), ForeignKey(<<<<"y">>>>)>>}

RenderTables ==
    {[Owner |-> id[1], Name |-> id[2],
      Columns |-> <<[Name |-> <<"x">>, Unique |-> TRUE], [Name |-> <<"y">>, Unique |-> FALSE]>>,
      Constraints |-> cs] :
        id \in RenderIds, cs \in RenderConstraints}

RenderLists ==
    UNION {{l \in [1..n -> RenderTables] :
               \A i, j \in 1..n :
                   (l[i].Owner = l[j].Owner /\ l[i].Name = l[j].Name) => i = j} :
           n \in 0..MaxRTables}

RenderInit ==
    /\ fmt \in {"dot", "gml", "graphml"}
    /\ \E l \in RenderLists : \E r \in SortRank(l) : rTables = SortNameGroup(r)
    /\ rpc = "write" /\ doc = <<>>
    /\ bwBuf = <<>> /\ bwErr = FALSE /\ sink = <<>> /\ sinkCalls = <<>> /\ rErr = "none"

FetchIdle ==
    /\ db = "open"
    /\ tpc = "ok" /\ tRows = <<>> /\ tp = ZeroTable /\ tAcc = <<>> /\ tables = <<>>
    /\ cpc = "ok" /\ cRows = <<>> /\ cp = ZeroConstraint /\ cAcc = EmptyMap
    /\ constraints = EmptyMap
    /\ pc = "done" /\ snapshot = <<>>
    /\ assembled = <<>> /\ ranked = <<>> /\ result = <<>>

(* One WriteString / Fprintf of the renderer.                              *)
RenderWrite ==
    /\ rpc = "write" /\ Len(doc) < Len(Document(fmt, rTables))
    /\ LET piece == Document(fmt, rTables)[Len(doc) + 1]
       IN  /\ doc' = Append(doc, piece)
           /\ \E n \in 0..Len(bwBuf), e \in BOOLEAN : SetBw(BufWrite(Bw, piece, n, e))
    /\ UNCHANGED <<fmt, rTables, rpc, rErr, fetchVars>>

(* return bw.Flush(), then the deferred bw.Flush().                        *)
RenderReturn ==
    /\ rpc = "write" /\ Len(doc) = Len(Document(fmt, rTables))
    /\ \E n \in 0..Len(bwBuf), e \in BOOLEAN :
          LET b1 == BufFlush(Bw, n, e)
          IN  /\ rErr' = IF b1.err THEN "error" ELSE "nil"
              /\ \E n2 \in 0..Len(b1.buf), e2 \in BOOLEAN : SetBw(BufFlush(b1, n2, e2))
    /\ rpc' = "done"
    /\ UNCHANGED <<fmt, rTables, doc, fetchVars>>

NextRender == RenderWrite \/ RenderReturn

InitRender == RenderInit /\ FetchIdle

SpecRender == InitRender /\ [][NextRender]_vars

---------------------------------------------------------------------------
(* The maximal runs of equal adjacent keys of a key sequence, as           *)
(* <<first, last>> index pairs in stream order.                            *)
RECURSIVE RunsFrom(_, _, _)
RunsFrom(keys, s, i) ==
    IF i > Len(keys) THEN <<<<s, Len(keys)>>>>
    ELSE IF keys[i] = keys[s] THEN RunsFrom(keys, s, i + 1)
    ELSE <<<<s, i - 1>>>> \o RunsFrom(keys, i, i + 1)

Runs(keys) == IF keys = <<>> THEN <<>> ELSE RunsFrom(keys, 1, 2)

TKeys == [i \in 1..Len(tRows) |-> <<tRows[i].Owner, tRows[i].Name>>]

CKeys ==
    [i \in 1..Len(cRows) |->
        <<cRows[i].Owner, cRows[i].Name, cRows[i].Type, cRows[i].Table,
          cRows[i].RemoteOwner, cRows[i].RemoteTable, cRows[i].RemoteName>>]

TRunIsTable(run, t) ==
    /\ t.Owner = tRows[run[1]].Owner /\ t.Name = tRows[run[1]].Name
    /\ Len(t.Columns) = run[2] - run[1] + 1
    /\ \A j \in 1..Len(t.Columns) : t.Columns[j].Name = tRows[run[1] + j - 1].Col

CRunIsConstraint(run, c) ==
    /\ <<c.Owner, c.Name, c.Type, c.Table, c.RemoteOwner, c.RemoteTable, c.RemoteName>>
          = CKeys[run[1]]
    /\ Len(c.Columns) = run[2] - run[1] + 1
    /\ \A j \in 1..Len(c.Columns) : c.Columns[j] = cRows[run[1] + j - 1].Col

(* C1: once readTables has consumed an ordered stream, its list holds one  *)
(* table per maximal run of rows with equal (owner, table), in stream      *)
(* order, each with one column per row of its run, in row order; once      *)
(* readConstraints has consumed an ordered stream, every map entry holds   *)
(* one constraint per maximal run of rows with equal (owner, name, type,   *)
(* table, remote endpoint) filed under that key, in stream order, each     *)
(* with one column name per row of its run; no key without a run is in the *)
(* map, and an empty stream yields no entity.                              *)
C1_MergerFold ==
    /\ tpc = "ok" =>
          LET runs == Runs(TKeys)
          IN  /\ Len(tables) = Len(runs)
              /\ \A k \in 1..Len(tables) : TRunIsTable(runs[k], tables[k])
    /\ cpc = "ok" =>
          LET runs == Runs(CKeys)
              KeyOf(run) == MapKey(cRows[run[1]].Owner, cRows[run[1]].Table)
          IN  /\ DOMAIN constraints = {KeyOf(runs[k]) : k \in 1..Len(runs)}
              /\ \A key \in DOMAIN constraints :
                    LET under == SelectSeq(runs, LAMBDA run : KeyOf(run) = key)
                    IN  /\ Len(constraints[key]) = Len(under)
                        /\ \A i \in 1..Len(under) :
                              CRunIsConstraint(under[i], constraints[key][i])

C1_Witness ==
    /\ tpc = "ok" /\ Len(tRows) = 2 /\ Len(tables) = 1 /\ Len(tables[1].Columns) = 2
    /\ cpc = "ok" /\ Len(cRows) = 2
    /\ \E key \in DOMAIN constraints : Len(constraints[key]) = 2

---------------------------------------------------------------------------
(* The constraints the map files under the key of table t.                 *)
FiledUnder(t) == Lookup(constraints, MapKey(t.Owner, t.Name))

NamedIn(cs, colName, types) ==
    \E i \in 1..Len(cs) :
        /\ cs[i].Type \in types
        /\ \E j \in 1..Len(cs[i].Columns) : cs[i].Columns[j] = colName

(* The constraints of the map that belong to table t: same owner, same     *)
(* table name.                                                             *)
OwnConstraints(t) ==
    LET keys == DOMAIN constraints
        RECURSIVE cat(_)
        cat(ks) == IF ks = {} THEN <<>>
                   ELSE LET k == CHOOSE x \in ks : TRUE
                        IN  constraints[k] \o cat(ks \ {k})
    IN  SelectSeq(cat(keys), LAMBDA c : c.Owner = t.Owner /\ c.Table = t.Name)

(* C2: after assembly a column is Unique iff a P or U constraint filed     *)
(* under its table's key (Owner + "." + Name) names it; and a column that  *)
(* no P or U constraint of its own table names (one named only in R        *)
(* constraints, or in P/U constraints of another table) is not Unique.     *)
(* The returned list carries the same flags.                               *)
C2_UniqueIffNamedByOwnKey ==
    pc = "done" =>
        \A ts \in {assembled, result} :
            \A i \in 1..Len(ts) : \A j \in 1..Len(ts[i].Columns) :
                /\ ts[i].Columns[j].Unique
                      <=> NamedIn(FiledUnder(ts[i]), ts[i].Columns[j].Name, {TypeP, TypeU})
                /\ ~NamedIn(OwnConstraints(ts[i]), ts[i].Columns[j].Name, {TypeP, TypeU})
                      => ~ts[i].Columns[j].Unique

(* The R constraints among cs that satisfy Belongs, as TableConstraints, in order. *)
RECURSIVE RConstraintsOf(_, _, _)
RConstraintsOf(cs, owner, table) ==
    IF cs = <<>> THEN <<>>
    ELSE IF /\ Head(cs).Type = TypeR /\ Head(cs).Owner = owner /\ Head(cs).Table = table
         THEN <<TableConstraintOf(Head(cs))>> \o RConstraintsOf(Tail(cs), owner, table)
         ELSE RConstraintsOf(Tail(cs), owner, table)

(* Every constraint of the map, entry by entry; the constraints of one     *)
(* (owner, table) all lie in one entry, in source order.                   *)
AllConstraints ==
    LET keys == DOMAIN constraints
        RECURSIVE cat(_)
        cat(ks) == IF ks = {} THEN <<>>
                   ELSE LET k == CHOOSE x \in ks : TRUE
                        IN  constraints[k] \o cat(ks \ {k})
    IN  cat(keys)

(* C3: after assembly the attached list of every table is exactly the      *)
(* TableConstraints of the R constraints with the table's owner and the    *)
(* table's name, in source order.                                          *)
C3_AttachedAreOwnForeignKeys ==
    pc = "done" =>
        \A i \in 1..Len(assembled) :
            assembled[i].Constraints
                = RConstraintsOf(AllConstraints, assembled[i].Owner, assembled[i].Name)

(* C4 as stated: in the returned list a table with strictly fewer attached *)
(* constraints stands after every table with more.                         *)
C4_ReturnedListDescendsByConstraints ==
    pc = "done" =>
        \A i, j \in 1..Len(result) :
            Len(result[i].Constraints) < Len(result[j].Constraints) => i > j

(* C4 amended: after the first sort pass, sort.Sort(sort.Reverse(          *)
(* byRankSize)), a table with strictly fewer attached constraints stands   *)
(* after every table with more.                                            *)
C4_RankedListDescendsByConstraints ==
    pc = "done" =>
        \A i, j \in 1..Len(ranked) :
            Len(ranked[i].Constraints) < Len(ranked[j].Constraints) => i > j

C4_Witness ==
    /\ pc = "done" /\ Len(ranked) = 2
    /\ Len(assembled[1].Constraints) < Len(assembled[2].Constraints)
    /\ ranked[1] = assembled[2]

(* C5: byNameGroup.Less is a strict total order over the tables at hand    *)
(* (irreflexive, asymmetric, transitive, total over distinct tables), and  *)
(* the returned list is the same for every arrival order of the tables.    *)
C5_NameGroupStrictTotalOrder ==
    pc = "done" =>
        LET T == {assembled[i] : i \in 1..Len(assembled)}
        IN  /\ \A a \in T : ~byNameGroupLess(a, a)
            /\ \A a, b \in T : ~(byNameGroupLess(a, b) /\ byNameGroupLess(b, a))
            /\ \A a, b, c \in T :
                  (byNameGroupLess(a, b) /\ byNameGroupLess(b, c)) => byNameGroupLess(a, c)
            /\ \A a, b \in T : a # b => (byNameGroupLess(a, b) \/ byNameGroupLess(b, a))
            /\ \A p \in Permutations(Len(assembled)) :
                  SortNameGroup([i \in 1..Len(assembled) |-> assembled[p[i]]])
                      = SortNameGroup(assembled)

(* C7: with a live database the snapshot, the assembly loop and the sorts  *)
(* happen only after both fetch tasks have returned, and when a task       *)
(* returned an error getTables fails with no snapshot written, nothing     *)
(* assembled and nothing sorted.                                           *)
C7_BarrierBeforeAssembly ==
    db = "open" =>
        /\ (pc # "wait" \/ snapshot # <<>> \/ assembled # <<>> \/ ranked # <<>> \/ result # <<>>)
              => (tpc \in {"ok", "err"} /\ cpc \in {"ok", "err"})
        /\ (tpc = "err" \/ cpc = "err")
              => /\ pc \in {"wait", "failed"}
                 /\ snapshot = <<>> /\ assembled = <<>> /\ ranked = <<>> /\ result = <<>>
        /\ pc = "done" => (tpc = "ok" /\ cpc = "ok")

C7_Witness ==
    /\ db = "open" /\ pc = "failed" /\ tpc = "err" /\ cpc = "ok"
    /\ tables # <<>> /\ DOMAIN constraints # {}

(* The constraint map as the assembly loop received it: what               *)
(* readConstraints returned, or what the snapshot file holds.              *)
MapBeforeAssembly == IF db = "open" THEN cAcc ELSE snapshot[1]

(* C9 as stated: assembling the assembled tables again, with the same      *)
(* constraint map, gives the assembled tables back, and assembly leaves    *)
(* the map as it received it.                                              *)
C9_AssemblyIdempotent ==
    pc = "done" =>
        /\ Assemble(assembled, constraints) = assembled
        /\ constraints = MapBeforeAssembly

(* C9 amended: a second assembly leaves every Unique flag and the          *)
(* constraint map unchanged but appends to every table the R constraints   *)
(* filed under its key once more, so that its output equals its input      *)
(* exactly for the tables that have no R constraint under their key.       *)
C9_SecondAssemblyAppendsAgain ==
    pc = "done" =>
        LET again == Assemble(assembled, constraints)
        IN  /\ constraints = MapBeforeAssembly
            /\ Len(again) = Len(assembled)
            /\ \A i \in 1..Len(assembled) :
                  LET fks == SelectSeq(FiledUnder(assembled[i]), LAMBDA c : c.Type = TypeR)
                  IN  /\ again[i].Owner = assembled[i].Owner
                      /\ again[i].Name = assembled[i].Name
                      /\ again[i].Columns = assembled[i].Columns
                      /\ Len(again[i].Constraints) = Len(assembled[i].Constraints) + Len(fks)
                      /\ \A k \in 1..Len(assembled[i].Constraints) :
                            again[i].Constraints[k] = assembled[i].Constraints[k]
                      /\ \A k \in 1..Len(fks) :
                            again[i].Constraints[Len(assembled[i].Constraints) + k]
                                = TableConstraintOf(fks[k])
                      /\ (again[i] = assembled[i]) <=> (fks = <<>>)

C9_Witness ==
    /\ pc = "done"
    /\ \E i \in 1..Len(assembled) :
          /\ assembled[i].Constraints # <<>>
          /\ \E j \in 1..Len(assembled[i].Columns) : assembled[i].Columns[j].Unique

---------------------------------------------------------------------------
(* C6: name is injective over the tables of a rendered list: two tables    *)
(* whose nodes carry the same identifier have the same owner and name.     *)
C6_NameInjective ==
    rErr = "nil" =>
        \A i, j \in 1..Len(rTables) :
            name(rTables[i].Owner, rTables[i].Name) = name(rTables[j].Owner, rTables[j].Name)
                => (rTables[i].Owner = rTables[j].Owner /\ rTables[i].Name = rTables[j].Name)

(* C8: no Write call reaches the sink after one that failed; a renderer    *)
(* that has returned after a failed Write returned an error; and it        *)
(* returns nil only when no Write failed and the sink holds the whole      *)
(* document.                                                               *)
C8_RendererFailsFast ==
    /\ \A i \in 1..Len(sinkCalls) : sinkCalls[i] = "fail" => i = Len(sinkCalls)
    /\ (rErr # "none" /\ \E i \in 1..Len(sinkCalls) : sinkCalls[i] = "fail")
          => rErr = "error"
    /\ rErr = "nil" =>
          /\ \A i \in 1..Len(sinkCalls) : sinkCalls[i] = "ok"
          /\ sink = doc /\ doc = Document(fmt, rTables)

C8_Witness ==
    /\ rpc = "done" /\ rErr = "error"
    /\ Len(sinkCalls) >= 2 /\ sinkCalls[Len(sinkCalls)] = "fail"
    /\ sink # <<>> /\ Len(sink) < Len(doc)

(* The (table, constraint) index pairs whose constraint has a remote table. *)
EdgeIndex ==
    UNION {{<<i, k>> : k \in {x \in 1..Len(rTables[i].Constraints) :
                                rTables[i].Constraints[x].RemoteTable # <<>>}} :
           i \in 1..Len(rTables)}

EdgePosition(i, k) ==
    Cardinality({q \in EdgeIndex : q[1] < i \/ (q[1] = i /\ q[2] <= k)})

IsEdge(p) == p.kind \in {"edge", "gmledge"}
IsNode(p) == p.kind \in {"node", "gmlnode"}

(* C10: a delivered document holds one node per table and, after all       *)
(* nodes, one edge per attached constraint with a non-empty RemoteTable,   *)
(* in table and constraint order, from name(owner, table) to               *)
(* name(RemoteOwner, RemoteTable), with the constraint's first column as   *)
(* port on both ends; a lone table with one self-referencing foreign key   *)
(* gives one node and one edge whose two identifiers are equal.            *)
C10_OneEdgePerForeignKey ==
    rErr = "nil" =>
        LET E == SelectSeq(sink, IsEdge)
            N == SelectSeq(sink, IsNode)
        IN  /\ Len(N) = Len(rTables)
            /\ Len(E) = Cardinality(EdgeIndex)
            /\ \A q \in EdgeIndex :
                  LET t == rTables[q[1]]
                      c == t.Constraints[q[2]]
                      e == E[EdgePosition(q[1], q[2])]
                  IN  /\ e.id = name(t.Owner, t.Name)
                      /\ e.to = name(c.RemoteOwner, c.RemoteTable)
                      /\ c.Columns # <<>> => (e.port = c.Columns[1] /\ e.toPort = c.Columns[1])
                      /\ e.label = c.RemoteName
            /\ \A a, b \in 1..Len(sink) : (IsEdge(sink[a]) /\ IsNode(sink[b])) => b < a
            /\ (/\ Len(rTables) = 1 /\ Len(rTables[1].Constraints) = 1
                /\ rTables[1].Constraints[1].RemoteOwner = rTables[1].Owner
                /\ rTables[1].Constraints[1].RemoteTable = rTables[1].Name)
                  => (Len(N) = 1 /\ Len(E) = 1 /\ E[1].id = E[1].to /\ E[1].id = N[1].id)

C10_Witness ==
    /\ rErr = "nil" /\ Len(rTables) = 1
    /\ rTables[1].Owner = sA /\ rTables[1].Name = sC
    /\ Len(rTables[1].Constraints) = 1 /\ Len(rTables[1].Constraints[1].Columns) = 2
    /\ \E a \in 1..Len(sink) : IsEdge(sink[a]) /\ sink[a].id = sink[a].to

IsOpening(p) == p.kind \in {"open", "closeopen"}
IsClosing(p) == p.kind \in {"close", "closeopen"}

(* Cluster blocks opened, and closed, by the first i pieces of the sink.   *)
(* A "closeopen" piece closes a block and then opens the next one.         *)
Opened(i) == Cardinality({a \in 1..i : IsOpening(sink[a])})
Closed(i) == Cardinality({a \in 1..i : IsClosing(sink[a])})

GroupKeys == [i \in 1..Len(rTables) |-> grp(rTables[i].Name)]

(* The position in the sink of the node of table j. *)
NodeAt(j) ==
    CHOOSE a \in 1..Len(sink) :
        IsNode(sink[a]) /\ Cardinality({b \in 1..a : IsNode(sink[b])}) = j

(* The index of the run of GroupKeys that holds table j. *)
RunOf(j) ==
    CHOOSE k \in 1..Len(Runs(GroupKeys)) :
        Runs(GroupKeys)[k][1] <= j /\ j <= Runs(GroupKeys)[k][2]

(* C11: in a delivered box-diagram or GraphML document there is one        *)
(* cluster block per maximal run of adjacent tables with equal group-key,  *)
(* labelled with that key; the node of every table lies inside the block   *)
(* of its run; a block is opened only when none is open and closed only    *)
(* when one is open, so blocks are never nested; no block is open when an  *)
(* edge or the end of the document is written; and with no tables no       *)
(* block is opened or closed.  Tables with an empty name are included.     *)
C11_OneClusterPerRun ==
    (rErr = "nil" /\ fmt \in {"dot", "graphml"}) =>
        /\ Opened(Len(sink)) = Len(Runs(GroupKeys))
        /\ Closed(Len(sink)) = Opened(Len(sink))
        /\ \A a \in 1..Len(sink) :
              /\ Opened(a) - Closed(a) \in {0, 1}
              /\ sink[a].kind = "open" => Opened(a - 1) = Closed(a - 1)
              /\ IsClosing(sink[a]) => Opened(a - 1) = Closed(a - 1) + 1
              /\ IsNode(sink[a]) => Opened(a) = Closed(a) + 1
              /\ (IsEdge(sink[a]) \/ sink[a].kind = "end") => Opened(a) = Closed(a)
              /\ IsOpening(sink[a]) =>
                    sink[a].id = GroupKeys[Runs(GroupKeys)[Opened(a)][1]]
        /\ \A j \in 1..Len(rTables) : Opened(NodeAt(j)) = RunOf(j)
        /\ rTables = <<>> => \A a \in 1..Len(sink) : ~IsOpening(sink[a]) /\ ~IsClosing(sink[a])

====
